---- MODULE Spec2Model ----
(***************************************************************************)
(* MCP tool call validation: the validation flow adapter                   *)
(* (MCPToolCallValidationHandler), the router of packages/api              *)
(* (validationIDUserGuard, POST /validation/confirm/:validationId,         *)
(* GET /validation/status/:validationId) and the flow state manager they   *)
(* call.  The manager (~/flow/manager) has no source here: its operations  *)
(* are written from sections 3, 4.1 and 4.2 of the specification.          *)
(*                                                                         *)
(* Strings are sequences of one-character strings, so that template        *)
(* literals are concatenations and startsWith is a prefix test.            *)
(***************************************************************************)
EXTENDS Integers, Sequences, FiniteSets, TLC

VARIABLES
    now,        \* Date.now(), in ms
    ticks,      \* how many times the clock has advanced
    faults,     \* how many manager calls have hit a storage failure
    initiated,  \* what initiateValidationFlow has returned, call by call
    flows,      \* the manager's store: <<id, type>> -> FlowRecord
    reqs        \* the requests and adapter calls, each with its position

vars == <<now, ticks, faults, initiated, flows, reqs>>

----------------------------------------------------------------------------
(* Bounds of the model *)

MaxFlows == 1
MaxReqs == 2
MaxTicks == 1
MaxFaults == 1

----------------------------------------------------------------------------
(* Strings *)

Colon == <<":">>

Digits == <<"0", "1", "2", "3", "4", "5", "6", "7", "8", "9">>

RECURSIVE ToDecimal(_)
\* `${n}` of a non-negative integer: its decimal digits
ToDecimal(n) ==
    IF n < 10 THEN <<Digits[n + 1]>>
    ELSE ToDecimal(n \div 10) \o <<Digits[(n % 10) + 1]>>

\* String.prototype.startsWith
startsWith(s, prefix) ==
    /\ Len(prefix) <= Len(s)
    /\ SubSeq(s, 1, Len(prefix)) = prefix

----------------------------------------------------------------------------
(* Inputs *)

UserIds == {<<"a">>, <<"a", ":", "b">>}
ServerNames == {<<"s">>, <<"b", ":", "s">>}
ToolNames == {<<"t">>}
ToolArguments == {"args"}
StateTokens == {"tok"}

\* req.user: absent, or an object with an id (possibly the empty string)
NoUser == [present |-> FALSE, id |-> <<>>]
User(id) == [present |-> TRUE, id |-> id]
ReqUsers == {NoUser} \cup {User(id) : id \in UserIds \cup {<<>>}}

----------------------------------------------------------------------------
(* The adapter's constants *)

FLOW_TYPE == "mcp_tool_validation"
FLOW_TTL == 10 * 60 * 1000

----------------------------------------------------------------------------
(* Errors *)

NoError == [kind |-> "none", from |-> "none"]
Err(kind, from) == [kind |-> kind, from |-> from]

\* new Error('Validation flow not found') of completeValidationFlow
ValidationFlowNotFound == Err("ValidationFlowNotFound", "completeValidationFlow")

----------------------------------------------------------------------------
(* The flow state manager *)

Key(id) == <<id, FLOW_TYPE>>

\* A record is live from its creation until the clock passes expiresAt.
Live(id) ==
    /\ Key(id) \in DOMAIN flows
    /\ now <= flows[Key(id)].expiresAt

NoMetadata ==
    [userId |-> <<>>, serverName |-> <<>>, toolName |-> <<>>,
     toolArguments |-> "none", state |-> "none", timestamp |-> -1]

NoRecord ==
    [status |-> "NONE", result |-> "undefined", error |-> NoError,
     metadata |-> NoMetadata, createdAt |-> -1, expiresAt |-> -1]

\* getFlowState(id, type): the live record, or not-found (NoRecord)
MgrGetFlowState(id) == IF Live(id) THEN flows[Key(id)] ELSE NoRecord

\* createFlow(id, type, metadata, ttl): the error it fails with, or NoError
CreateFlowError(id) ==
    IF Live(id) THEN Err("AlreadyExists", "createFlow") ELSE NoError

CreatedRecord(metadata, ttl) ==
    [status |-> "PENDING", result |-> "undefined", error |-> NoError,
     metadata |-> metadata, createdAt |-> now, expiresAt |-> now + ttl]

\* a manager that lets a terminal record be written again
TransitionErrorLiveOnly(id, op) ==
    IF ~Live(id) THEN Err("NotFound", op) ELSE NoError

\* completeFlow / failFlow: the error the transition fails with, or NoError
TransitionError(id, op) ==
    IF ~Live(id) THEN Err("NotFound", op)
    ELSE IF flows[Key(id)].status # "PENDING" THEN Err("InvalidTransition", op)
    ELSE NoError

\* a completion that writes the record anew, without its metadata
CompletedAnew(id, result) ==
    [flows EXCEPT ![Key(id)].status = "COMPLETED", ![Key(id)].result = result,
                  ![Key(id)].metadata = NoMetadata]

\* the store after completeFlow(id, type, result) succeeded
Completed(id, result) ==
    [flows EXCEPT ![Key(id)].status = "COMPLETED", ![Key(id)].result = result]

\* the store after failFlow(id, type, error) succeeded
Failed(id, error) ==
    [flows EXCEPT ![Key(id)].status = "FAILED", ![Key(id)].error = error]

----------------------------------------------------------------------------
(* The validation flow adapter: MCPToolCallValidationHandler *)

\* an id with the server name first
generateValidationIdServerFirst(userId, serverName, toolName) ==
    serverName \o Colon \o userId \o Colon \o toolName \o Colon \o ToDecimal(now)

\* `${userId}:${serverName}:${toolName}:${Date.now()}`
generateValidationId(userId, serverName, toolName) ==
    userId \o Colon \o serverName \o Colon \o toolName \o Colon \o ToDecimal(now)

\* randomBytes(32).toString('base64url'): any token
generateState == StateTokens

\* what initiateValidationFlow returns, state being the token generateState drew
initiateValidationFlow(userId, serverName, toolName, toolArguments, state) ==
    [validationId |-> generateValidationId(userId, serverName, toolName),
     flowMetadata |->
        [userId |-> userId, serverName |-> serverName, toolName |-> toolName,
         toolArguments |-> toolArguments, state |-> state, timestamp |-> now]]

\* getFlowState(validationId, flowManager): flowState.metadata, or null
getFlowState(validationId) ==
    LET flowState == MgrGetFlowState(validationId) IN
    IF flowState = NoRecord THEN [isNull |-> TRUE, metadata |-> NoMetadata]
    ELSE [isNull |-> FALSE, metadata |-> flowState.metadata]

----------------------------------------------------------------------------
(* The router *)

\* the guard with the returns after its two responses missing, the request
\* going on to the handler
GuardFallsThrough(user, validationId) ==
    IF ~user.present \/ user.id = <<>>
    THEN [status |-> 401, next |-> TRUE]
    ELSE IF ~startsWith(validationId, user.id \o Colon)
    THEN [status |-> 403, next |-> TRUE]
    ELSE [status |-> 0, next |-> TRUE]

\* validationIDUserGuard(req, res): the response it sends (0: none) and whether
\* it hands the request on.  It takes no next, so it never does.
validationIDUserGuard(user, validationId) ==
    IF ~user.present \/ user.id = <<>>
    THEN [status |-> 401, next |-> FALSE]
    ELSE IF ~startsWith(validationId, user.id \o Colon)
    THEN [status |-> 403, next |-> FALSE]
    ELSE [status |-> 0, next |-> FALSE]

\* a body with completed and failed exchanged
StatusBodySwapped(flowState) ==
    [status |-> flowState.status,
     completed |-> flowState.status = "FAILED",
     failed |-> flowState.status = "COMPLETED",
     error |-> flowState.error]

\* a body that reports every terminal status as completed
StatusBodyTerminalCompleted(flowState) ==
    [status |-> flowState.status,
     completed |-> flowState.status # "PENDING",
     failed |-> flowState.status = "FAILED",
     error |-> flowState.error]

\* the body of a status response
StatusBody(flowState) ==
    [status |-> flowState.status,
     completed |-> flowState.status = "COMPLETED",
     failed |-> flowState.status = "FAILED",
     error |-> flowState.error]

NoBody == [status |-> "NONE", completed |-> FALSE, failed |-> FALSE, error |-> NoError]

\* the first position of a route's handler
HandlerStart(kind) == IF kind = "confirm" THEN "confirm_get" ELSE "status_get"

----------------------------------------------------------------------------
(* Requests and adapter calls *)

\* entry: "router" (a request sent to the endpoint), "handler" (the route's
\* handler run on a request) or "adapter" (a call of the adapter's method).
NewReq(entry, kind, user, validationId, pc) ==
    [entry |-> entry, kind |-> kind, user |-> user, validationId |-> validationId,
     pc |-> pc,
     status |-> 0,            \* the HTTP response's status, 0 while there is none
     body |-> NoBody,         \* the body of a status response
     ret |-> "none",          \* what the adapter's method returned
     seen |-> NoMetadata,     \* the metadata the adapter's getFlowState returned
     caught |-> NoError,      \* the error completeValidationFlow caught
     raised |-> NoError,      \* the error the adapter's method raised
     wrote |-> "none",        \* the transition this request performed
     faulted |-> FALSE,       \* whether a manager call of it hit a storage failure
     sentStatus |-> MgrGetFlowState(validationId).status]

Reqs == DOMAIN reqs

KnownIds == {initiated[i].out.validationId : i \in DOMAIN initiated}

\* whether this manager call may hit a storage failure
FaultChoices == IF faults < MaxFaults THEN {FALSE, TRUE} ELSE {FALSE}

StorageFailure(op) == Err("StorageFailure", op)

\* the request once its handler, or the adapter's method, has finished
Respond(q, status) ==
    [q EXCEPT !.pc = "done", !.status = IF q.entry = "adapter" THEN 0 ELSE status]

----------------------------------------------------------------------------
(* Initial state: an empty store, no flow initiated, no request *)

Init ==
    /\ now = 0
    /\ ticks = 0
    /\ faults = 0
    /\ initiated = <<>>
    /\ flows = <<>>
    /\ reqs = <<>>

----------------------------------------------------------------------------
(* The clock *)

\* The clock advances by a millisecond, or by more than the TTL.
Tick ==
    /\ ticks < MaxTicks
    /\ \E d \in {1, FLOW_TTL + 1} : now' = now + d
    /\ ticks' = ticks + 1
    /\ UNCHANGED <<faults, initiated, flows, reqs>>

----------------------------------------------------------------------------
(* Starting a flow *)

\* initiateValidationFlow registering what it returns with createFlow
InitiateAndRegister ==
    /\ Len(initiated) < MaxFlows
    /\ \E userId \in UserIds, serverName \in ServerNames, toolName \in ToolNames,
          toolArguments \in ToolArguments, state \in generateState :
          LET out == initiateValidationFlow(userId, serverName, toolName,
                                            toolArguments, state)
          IN
          /\ initiated' = Append(initiated, [out |-> out, created |-> "no"])
          /\ flows' = (Key(out.validationId) :> CreatedRecord(out.flowMetadata, FLOW_TTL))
                       @@ flows
    /\ UNCHANGED <<now, ticks, faults, reqs>>

\* A call of initiateValidationFlow: it returns the id and the metadata and
\* makes no manager call.
InitiateValidationFlow ==
    /\ Len(initiated) < MaxFlows
    /\ \E userId \in UserIds, serverName \in ServerNames, toolName \in ToolNames,
          toolArguments \in ToolArguments, state \in generateState :
          initiated' = Append(initiated,
              [out |-> initiateValidationFlow(userId, serverName, toolName,
                                              toolArguments, state),
               created |-> "no"])
    /\ UNCHANGED <<now, ticks, faults, flows, reqs>>

\* The caller of initiateValidationFlow registers what it returned:
\* createFlow(validationId, FLOW_TYPE, flowMetadata, FLOW_TTL).
CreateFlow ==
    \E i \in DOMAIN initiated :
        LET id == initiated[i].out.validationId
            e == CreateFlowError(id)
        IN
        /\ initiated[i].created = "no"
        /\ flows' = IF e = NoError
                    THEN (Key(id) :> CreatedRecord(initiated[i].out.flowMetadata, FLOW_TTL))
                         @@ flows
                    ELSE flows
        /\ initiated' = [initiated EXCEPT ![i].created =
                            IF e = NoError THEN "ok" ELSE e.kind]
        /\ UNCHANGED <<now, ticks, faults, reqs>>

----------------------------------------------------------------------------
(* Arrivals *)

\* A request reaches one of the two routes: requireJwtAuth has passed it on,
\* with or without req.user, and the guard is the next layer.
ReceiveRequest ==
    /\ Len(reqs) < MaxReqs
    /\ \E kind \in {"confirm", "status"}, user \in ReqUsers, validationId \in KnownIds :
          reqs' = Append(reqs, NewReq("router", kind, user, validationId, "guard"))
    /\ UNCHANGED <<now, ticks, faults, initiated, flows>>

\* The handler of a route is run on a request: what Express does once the
\* layer before it calls next().  The guard never calls it, so no request of
\* ReceiveRequest gets here; the handlers are run on requests of their own.
InvokeHandler ==
    /\ Len(reqs) < MaxReqs
    /\ \E kind \in {"confirm", "status"}, validationId \in KnownIds :
          reqs' = Append(reqs,
              NewReq("handler", kind, NoUser, validationId, HandlerStart(kind)))
    /\ UNCHANGED <<now, ticks, faults, initiated, flows>>

\* A direct call of the adapter: completeValidationFlow or getFlowState.
CallAdapter ==
    /\ Len(reqs) < MaxReqs
    /\ \E kind \in {"confirm", "status"}, validationId \in KnownIds :
          reqs' = Append(reqs,
              NewReq("adapter", kind, NoUser, validationId,
                     IF kind = "confirm" THEN "complete_get" ELSE "adapter_get"))
    /\ UNCHANGED <<now, ticks, faults, initiated, flows>>

----------------------------------------------------------------------------
(* The guard *)

\* Express runs the guard as a layer of the route: the handler, the next
\* layer, runs only if the guard calls next(); otherwise the chain ends here,
\* with the guard's response or with none.
Guard(r) ==
    LET q == reqs[r]
        g == validationIDUserGuard(q.user, q.validationId)
    IN
    /\ q.pc = "guard"
    /\ reqs' = [reqs EXCEPT ![r] =
                  [q EXCEPT !.status = g.status,
                            !.pc = IF g.next THEN HandlerStart(q.kind) ELSE "ended"]]
    /\ UNCHANGED <<now, ticks, faults, initiated, flows>>

----------------------------------------------------------------------------
(* POST /validation/confirm/:validationId *)

\* The handler up to its first answer: the adapter's getFlowState, 404 when it
\* returns null, 500 when it raises, else on to completeValidationFlow.
ConfirmLookup(r) ==
    LET q == reqs[r]
        flowState == getFlowState(q.validationId)
    IN
    /\ q.pc = "confirm_get"
    /\ \E fault \in FaultChoices :
          /\ faults' = IF fault THEN faults + 1 ELSE faults
          /\ reqs' = [reqs EXCEPT ![r] =
                IF fault THEN Respond([q EXCEPT !.faulted = TRUE], 500)
                ELSE IF flowState.isNull THEN Respond(q, 404)
                ELSE [q EXCEPT !.pc = "complete_get"]]
    /\ UNCHANGED <<now, ticks, initiated, flows>>

----------------------------------------------------------------------------
(* completeValidationFlow *)

\* a lookup that takes an already COMPLETED flow for done and returns true
CompleteLookupIdempotent(r) ==
    LET q == reqs[r]
        flowState == MgrGetFlowState(q.validationId)
    IN
    /\ q.pc = "complete_get"
    /\ reqs' = [reqs EXCEPT ![r] =
          IF flowState = NoRecord
          THEN [q EXCEPT !.pc = "complete_catch", !.caught = ValidationFlowNotFound]
          ELSE IF flowState.status = "COMPLETED"
          THEN Respond([q EXCEPT !.ret = "true"], 200)
          ELSE [q EXCEPT !.pc = "complete_flow"]]
    /\ UNCHANGED <<now, ticks, faults, initiated, flows>>

\* The lookup of completeValidationFlow: an error of the manager, or the
\* "Validation flow not found" it throws itself, is caught by its catch block.
CompleteLookup(r) ==
    LET q == reqs[r]
        flowState == MgrGetFlowState(q.validationId)
    IN
    /\ q.pc = "complete_get"
    /\ \E fault \in FaultChoices :
          /\ faults' = IF fault THEN faults + 1 ELSE faults
          /\ reqs' = [reqs EXCEPT ![r] =
                IF fault
                THEN [q EXCEPT !.pc = "complete_catch", !.faulted = TRUE,
                               !.caught = StorageFailure("getFlowState")]
                ELSE IF flowState = NoRecord
                THEN [q EXCEPT !.pc = "complete_catch", !.caught = ValidationFlowNotFound]
                ELSE [q EXCEPT !.pc = "complete_flow"]]
    /\ UNCHANGED <<now, ticks, initiated, flows>>

\* what the caller of completeValidationFlow does when it returns true: the
\* handler answers success
AfterReturn(q) == Respond([q EXCEPT !.ret = "true"], 200)

\* a caller that swallows the error and answers success
AfterRaiseSwallowed(q, e) == Respond([q EXCEPT !.ret = "true"], 200)

\* what the caller of completeValidationFlow does when it raises e: the
\* handler's catch answers 500
AfterRaise(q, e) == Respond([q EXCEPT !.raised = e], 500)

\* completeFlow(validationId, FLOW_TYPE, true), then return true
CompleteFlow(r) ==
    LET q == reqs[r]
        e == TransitionError(q.validationId, "completeFlow")
    IN
    /\ q.pc = "complete_flow"
    /\ \E fault \in FaultChoices :
          /\ faults' = IF fault THEN faults + 1 ELSE faults
          /\ flows' = IF ~fault /\ e = NoError
                      THEN Completed(q.validationId, "true") ELSE flows
          /\ reqs' = [reqs EXCEPT ![r] =
                IF fault
                THEN [q EXCEPT !.pc = "complete_catch", !.faulted = TRUE,
                               !.caught = StorageFailure("completeFlow")]
                ELSE IF e # NoError
                THEN [q EXCEPT !.pc = "complete_catch", !.caught = e]
                ELSE AfterReturn([q EXCEPT !.wrote = "COMPLETED"])]
    /\ UNCHANGED <<now, ticks, initiated>>

\* the error completeValidationFlow raises from its catch block, where failFlow
\* ended with failed (NoError when it succeeded): an error of the awaited
\* failFlow leaves the block before throw error is reached
RaisedFromCatch(caught, failed) == IF failed # NoError THEN failed ELSE caught

\* a catch block that only rethrows
CompleteCatchRethrowOnly(r) ==
    LET q == reqs[r] IN
    /\ q.pc = "complete_catch"
    /\ reqs' = [reqs EXCEPT ![r] = AfterRaise(q, q.caught)]
    /\ UNCHANGED <<now, ticks, faults, initiated, flows>>

\* The catch block: failFlow(validationId, FLOW_TYPE, error), then throw error.
CompleteCatch(r) ==
    LET q == reqs[r]
        e == TransitionError(q.validationId, "failFlow")
    IN
    /\ q.pc = "complete_catch"
    /\ \E fault \in FaultChoices :
          LET failed == IF fault THEN StorageFailure("failFlow") ELSE e IN
          /\ faults' = IF fault THEN faults + 1 ELSE faults
          /\ flows' = IF failed = NoError
                      THEN Failed(q.validationId, q.caught) ELSE flows
          /\ reqs' = [reqs EXCEPT ![r] =
                AfterRaise([q EXCEPT !.faulted = q.faulted \/ fault,
                                     !.wrote = IF failed = NoError THEN "FAILED"
                                               ELSE q.wrote],
                           RaisedFromCatch(q.caught, failed))]
    /\ UNCHANGED <<now, ticks, initiated>>

----------------------------------------------------------------------------
(* The adapter's getFlowState, called directly *)

\* a getFlowState that raises when the manager finds no live record
GetFlowStateRaises(r) ==
    LET q == reqs[r]
        flowState == getFlowState(q.validationId)
    IN
    /\ q.pc = "adapter_get"
    /\ reqs' = [reqs EXCEPT ![r] =
          IF flowState.isNull
          THEN [q EXCEPT !.pc = "done", !.raised = ValidationFlowNotFound]
          ELSE [q EXCEPT !.pc = "done", !.ret = "metadata",
                         !.seen = flowState.metadata]]
    /\ UNCHANGED <<now, ticks, faults, initiated, flows>>

GetFlowState(r) ==
    LET q == reqs[r]
        flowState == getFlowState(q.validationId)
    IN
    /\ q.pc = "adapter_get"
    /\ \E fault \in FaultChoices :
          /\ faults' = IF fault THEN faults + 1 ELSE faults
          /\ reqs' = [reqs EXCEPT ![r] =
                IF fault
                THEN [q EXCEPT !.pc = "done", !.faulted = TRUE,
                               !.raised = StorageFailure("getFlowState")]
                ELSE [q EXCEPT !.pc = "done",
                               !.ret = IF flowState.isNull THEN "null" ELSE "metadata",
                               !.seen = flowState.metadata]]
    /\ UNCHANGED <<now, ticks, initiated, flows>>

----------------------------------------------------------------------------
(* GET /validation/status/:validationId *)

\* a handler without the not-found answer
StatusHandlerNoNotFound(r) ==
    LET q == reqs[r] IN
    /\ q.pc = "status_get"
    /\ reqs' = [reqs EXCEPT ![r] =
          Respond([q EXCEPT !.body =
              StatusBody(IF Key(q.validationId) \in DOMAIN flows
                         THEN flows[Key(q.validationId)] ELSE NoRecord)], 200)]
    /\ UNCHANGED <<now, ticks, faults, initiated, flows>>

\* The handler: the manager's getFlowState, 404 on not-found, else the status
\* body; 500 when the manager raises.
StatusHandler(r) ==
    LET q == reqs[r]
        flowState == MgrGetFlowState(q.validationId)
    IN
    /\ q.pc = "status_get"
    /\ \E fault \in FaultChoices :
          /\ faults' = IF fault THEN faults + 1 ELSE faults
          /\ reqs' = [reqs EXCEPT ![r] =
                IF fault THEN Respond([q EXCEPT !.faulted = TRUE], 500)
                ELSE IF flowState = NoRecord THEN Respond(q, 404)
                ELSE Respond([q EXCEPT !.body = StatusBody(flowState)], 200)]
    /\ UNCHANGED <<now, ticks, initiated, flows>>

----------------------------------------------------------------------------
(* The specification *)

Next ==
    \/ Tick
    \/ InitiateValidationFlow
    \/ CreateFlow
    \/ ReceiveRequest
    \/ InvokeHandler
    \/ CallAdapter
    \/ \E r \in Reqs : Guard(r)
    \/ \E r \in Reqs : ConfirmLookup(r)
    \/ \E r \in Reqs : CompleteLookup(r)
    \/ \E r \in Reqs : CompleteFlow(r)
    \/ \E r \in Reqs : CompleteCatch(r)
    \/ \E r \in Reqs : GetFlowState(r)
    \/ \E r \in Reqs : StatusHandler(r)

Spec == Init /\ [][Next]_vars

----------------------------------------------------------------------------
(* Vocabulary of the claims *)

Finished(q) == q.pc \in {"ended", "done"}

\* the request has an authenticated user id
Authenticated(q) == q.user.present /\ q.user.id # <<>>

\* the validationId starts with "<callerId>:"
OwnPrefix(q) == startsWith(q.validationId, q.user.id \o Colon)

\* the request made no manager call and its handler did not run
HandlerNeverRan(q) ==
    /\ q.pc = "ended"
    /\ q.body = NoBody /\ q.ret = "none" /\ q.seen = NoMetadata
    /\ q.caught = NoError /\ q.raised = NoError
    /\ q.wrote = "none" /\ ~q.faulted

\* the calls of initiateValidationFlow that returned this id
InitiationsOf(id) == {i \in DOMAIN initiated : initiated[i].out.validationId = id}

\* the id was derived once, so that it names one flow
Unique(id) == Cardinality(InitiationsOf(id)) = 1

\* the record under the id exists and the clock has passed its expiresAt
Expired(id) == Key(id) \in DOMAIN flows /\ now > flows[Key(id)].expiresAt

----------------------------------------------------------------------------
(* C1 *)

\* C1: on both routes a request with no authenticated user id is answered 401
\* and a request whose validationId does not start with "<callerId>:" is
\* answered 403, and in both cases the chain stops at the guard: the handler
\* does not run, no manager call is made and no record is written.
C1_GuardShortCircuits ==
    \A r \in Reqs :
        LET q == reqs[r] IN
        (q.entry = "router" /\ q.pc # "guard") =>
            /\ ~Authenticated(q) => (q.status = 401 /\ HandlerNeverRan(q))
            /\ (Authenticated(q) /\ ~OwnPrefix(q)) => (q.status = 403 /\ HandlerNeverRan(q))

\* both rejections have happened, each on a request for a live PENDING flow
C1_Witness ==
    \E r1, r2 \in Reqs :
        /\ reqs[r1].entry = "router" /\ reqs[r1].status = 401 /\ reqs[r1].kind = "confirm"
        /\ reqs[r2].entry = "router" /\ reqs[r2].status = 403 /\ reqs[r2].kind = "status"
        /\ Live(reqs[r1].validationId) /\ Live(reqs[r2].validationId)
        /\ flows[Key(reqs[r1].validationId)].status = "PENDING"

----------------------------------------------------------------------------
(* C2 *)

\* C2: a confirm request sent to the endpoint by the authenticated owner of a
\* live PENDING flow that no other request touches is answered with success,
\* and the flow is then COMPLETED with result true: once no layer of the route
\* is left to run for the request, it has its 200 and the record is COMPLETED.
C2_OwnerConfirmSucceeds ==
    \A r \in Reqs :
        LET q == reqs[r] IN
        (/\ q.entry = "router" /\ q.kind = "confirm"
         /\ Authenticated(q) /\ OwnPrefix(q)
         /\ q.sentStatus = "PENDING"
         /\ Finished(q)
         /\ Live(q.validationId)
         /\ \A o \in Reqs \ {r} : reqs[o].validationId # q.validationId)
        => /\ q.status = 200
           /\ flows[Key(q.validationId)].status = "COMPLETED"
           /\ flows[Key(q.validationId)].result = "true"

----------------------------------------------------------------------------
(* C3 *)

----------------------------------------------------------------------------
(* Runs of completeValidationFlow *)

\* a run of completeValidationFlow: in the confirm handler, or called directly
IsComplete(q) == q.kind = "confirm" /\ q.entry \in {"handler", "adapter"}

\* the run found a live record in its lookup
PassedLookup(q) ==
    \/ q.pc = "complete_flow"
    \/ q.ret = "true"
    \/ q.caught.from = "completeFlow"

\* the run ended by returning true: for the handler, with the success answer
Succeeded(q) ==
    /\ q.pc = "done" /\ q.ret = "true" /\ q.raised = NoError
    /\ q.entry = "handler" => q.status = 200

\* the run ended by raising: for the handler, with 500
FailedRun(q) ==
    /\ q.pc = "done" /\ q.ret # "true" /\ q.raised # NoError
    /\ q.entry = "handler" => q.status = 500

\* the requests that have a storage failure behind them, on this id
FaultedOn(id) == {r \in Reqs : reqs[r].validationId = id /\ reqs[r].faulted}

\* the requests that performed a transition of the flow under this id
WritersOf(id) == {r \in Reqs : reqs[r].validationId = id /\ reqs[r].wrote # "none"}

----------------------------------------------------------------------------
(* C4 *)

\* C4: of the confirm runs on one PENDING flow, in whatever order their lookups
\* and writes interleave, at most one performs the PENDING -> terminal
\* transition, and the stored status is the one it wrote; while the flow stays
\* live, no storage failure occurs and no run that missed the flow in its
\* lookup has written, among the runs that have finished after passing the
\* lookup exactly one has succeeded, having written COMPLETED, and every other
\* has failed.
C4_ExactlyOneWins ==
    \A id \in KnownIds :
        Unique(id) =>
            LET runs == {r \in Reqs : reqs[r].validationId = id /\ IsComplete(reqs[r])
                                      /\ PassedLookup(reqs[r]) /\ reqs[r].pc = "done"}
                won == {r \in runs : Succeeded(reqs[r])}
            IN
            /\ Cardinality(WritersOf(id)) <= 1
            /\ \A r \in WritersOf(id) :
                  /\ Key(id) \in DOMAIN flows
                  /\ flows[Key(id)].status = reqs[r].wrote
            /\ \A r \in won : reqs[r].wrote = "COMPLETED"
            /\ (/\ runs # {} /\ Live(id) /\ FaultedOn(id) = {}
                /\ \A r \in WritersOf(id) : PassedLookup(reqs[r])) =>
                  /\ Cardinality(won) = 1
                  /\ \A r \in runs \ won : FailedRun(reqs[r]) /\ reqs[r].wrote = "none"
                  /\ flows[Key(id)].status = "COMPLETED"

\* two confirm runs both passed the lookup before either wrote, and both have
\* finished: one with success, the other with 500
C4_Witness ==
    \E r1, r2 \in Reqs :
        /\ r1 # r2 /\ reqs[r1].validationId = reqs[r2].validationId
        /\ reqs[r1].entry = "handler" /\ reqs[r2].entry = "handler"
        /\ reqs[r1].kind = "confirm" /\ reqs[r2].kind = "confirm"
        /\ reqs[r1].sentStatus = "PENDING" /\ reqs[r2].sentStatus = "PENDING"
        /\ reqs[r1].status = 200 /\ reqs[r1].wrote = "COMPLETED"
        /\ reqs[r2].status = 500 /\ reqs[r2].caught.kind = "InvalidTransition"
        /\ reqs[r2].caught.from = "completeFlow"

----------------------------------------------------------------------------
(* C5 *)

\* C5: in every step of a confirm or poll request (the failFlow of the catch
\* block included) a record's status changes only from PENDING to COMPLETED or
\* from PENDING to FAILED, and a record that is COMPLETED or FAILED keeps its
\* status, result and error.
C5_TerminalIsFinal ==
    [][ (initiated' = initiated) =>
            \A k \in DOMAIN flows :
                /\ k \in DOMAIN flows'
                /\ flows'[k].status # flows[k].status =>
                      /\ flows[k].status = "PENDING"
                      /\ flows'[k].status \in {"COMPLETED", "FAILED"}
                /\ flows[k].status \in {"COMPLETED", "FAILED"} =>
                      /\ flows'[k].status = flows[k].status
                      /\ flows'[k].result = flows[k].result
                      /\ flows'[k].error = flows[k].error ]_vars

\* a second confirm run has gone through completeFlow and the failFlow of the
\* catch block on a live COMPLETED record
C5_Witness ==
    \E r \in Reqs :
        /\ IsComplete(reqs[r]) /\ reqs[r].pc = "done"
        /\ reqs[r].sentStatus = "COMPLETED"
        /\ reqs[r].caught = Err("InvalidTransition", "completeFlow")
        /\ reqs[r].raised = Err("InvalidTransition", "failFlow")
        /\ Live(reqs[r].validationId)
        /\ flows[Key(reqs[r].validationId)].status = "COMPLETED"

----------------------------------------------------------------------------
(* C6 *)

\* C6: the completeValidationFlow that completes a flow returns true; a second
\* one on the COMPLETED flow raises InvalidTransition to its caller (the
\* handler answers 500, never success), and the record stays COMPLETED with
\* result true.
C6_SecondCompleteFails ==
    \A r \in Reqs :
        LET q == reqs[r]
            id == q.validationId
        IN
        (IsComplete(q) /\ q.pc = "done" /\ Unique(id)) =>
            /\ q.wrote = "COMPLETED" => Succeeded(q)
            /\ (q.sentStatus = "COMPLETED" /\ ~q.faulted /\ Live(id)) =>
                  /\ q.raised.kind = "InvalidTransition"
                  /\ FailedRun(q)
                  /\ q.wrote = "none"
                  /\ flows[Key(id)].status = "COMPLETED"
                  /\ flows[Key(id)].result = "true"
                  /\ flows[Key(id)].error = NoError

\* a flow was completed by one confirm request, answered 200, and a second
\* confirm request on it was answered 500
C6_Witness ==
    \E r1, r2 \in Reqs :
        /\ reqs[r1].entry = "handler" /\ reqs[r1].kind = "confirm"
        /\ reqs[r1].status = 200 /\ reqs[r1].wrote = "COMPLETED"
        /\ reqs[r2].entry = "handler" /\ reqs[r2].kind = "confirm"
        /\ reqs[r2].validationId = reqs[r1].validationId
        /\ reqs[r2].sentStatus = "COMPLETED"
        /\ reqs[r2].status = 500 /\ reqs[r2].raised.kind = "InvalidTransition"

----------------------------------------------------------------------------
(* C7 *)

\* C7: when completeValidationFlow fails with an error E (of its lookup or of
\* completeFlow), the error it raises to its caller is E, also when the
\* failFlow of its catch block fails with another error.
C7_OriginalErrorPropagates ==
    \A r \in Reqs :
        LET q == reqs[r] IN
        (q.entry = "adapter" /\ q.kind = "confirm" /\ q.pc = "done"
         /\ q.caught # NoError)
        => q.raised = q.caught

----------------------------------------------------------------------------
(* C8 *)

\* C8: a confirm request for a flow that is absent or expired when the request
\* ends is answered 404, not 500 and not success, whenever during the request
\* the flow became so, and writes no record.
C8_AbsentIs404 ==
    [][ \A r \in Reqs :
            LET q == reqs[r] IN
            (/\ q.entry = "handler" /\ q.kind = "confirm"
             /\ q.pc # "done" /\ reqs'[r].pc = "done"
             /\ ~Live(q.validationId)
             /\ ~reqs'[r].faulted)
            => (reqs'[r].status = 404 /\ flows' = flows) ]_vars

----------------------------------------------------------------------------
(* C9 *)

----------------------------------------------------------------------------
(* C10 *)

RECURSIVE FromDecimal(_)
\* the number a string of decimal digits writes
FromDecimal(s) ==
    IF s = <<>> THEN 0
    ELSE 10 * FromDecimal(SubSeq(s, 1, Len(s) - 1))
         + ((CHOOSE d \in 1..10 : Digits[d] = s[Len(s)]) - 1)

\* C10: the validationId initiateValidationFlow returns is
\* "{userId}:{serverName}:{toolName}:{clock in ms}", so it starts with
\* "{userId}:", and the guard answers neither 401 nor 403 to the initiating
\* user on that validationId.
C10_IdStartsWithOwner ==
    /\ \A i \in DOMAIN initiated :
          LET id == initiated[i].out.validationId
              md == initiated[i].out.flowMetadata
              head == md.userId \o <<":">> \o md.serverName \o <<":">> \o md.toolName
                      \o <<":">>
              clock == SubSeq(id, Len(head) + 1, Len(id))
          IN
          /\ SubSeq(id, 1, Len(md.userId) + 1) = md.userId \o <<":">>
          /\ Len(id) > Len(head)
          /\ SubSeq(id, 1, Len(head)) = head
          /\ \A n \in DOMAIN clock : \E d \in 1..10 : Digits[d] = clock[n]
          /\ FromDecimal(clock) = md.timestamp
          /\ md.timestamp <= now
    /\ \A r \in Reqs, i \in DOMAIN initiated :
          (/\ reqs[r].entry = "router" /\ reqs[r].pc # "guard"
           /\ reqs[r].validationId = initiated[i].out.validationId
           /\ reqs[r].user = User(initiated[i].out.flowMetadata.userId))
          => reqs[r].status \notin {401, 403}

\* a user whose id holds a ':' initiated a flow after the clock had passed
\* 600000 and the guard let that user's request on the flow's id through
C10_Witness ==
    \E r \in Reqs, i \in DOMAIN initiated :
        /\ initiated[i].out.flowMetadata.userId = <<"a", ":", "b">>
        /\ initiated[i].out.flowMetadata.timestamp > 600000
        /\ reqs[r].entry = "router" /\ reqs[r].pc = "ended" /\ reqs[r].status = 0
        /\ reqs[r].validationId = initiated[i].out.validationId
        /\ reqs[r].user = User(<<"a", ":", "b">>)

----------------------------------------------------------------------------
(* C11 *)

----------------------------------------------------------------------------
(* C12 *)

----------------------------------------------------------------------------
(* C13 *)

\* C13: the guard lets a caller through on the validationId of a flow only if
\* the caller is the user who initiated the flow (metadata.userId).
C13_OnlyOwnerPasses ==
    \A r \in Reqs, i \in DOMAIN initiated :
        LET q == reqs[r] IN
        (/\ q.entry = "router" /\ q.pc # "guard"
         /\ q.validationId = initiated[i].out.validationId
         /\ q.status \notin {401, 403})
        => q.user = User(initiated[i].out.flowMetadata.userId)

----------------------------------------------------------------------------
(* C14 *)

\* C14: every request sent to one of the two routes gets exactly one response:
\* when the chain of the route has ended for it, a request the guard rejected
\* has its 401 or 403 and nothing ran after the guard, and a request that
\* passed both checks of the guard was handed on to the handler and has its
\* 200, 404 or 500.
C14_EveryRequestAnswered ==
    \A r \in Reqs :
        LET q == reqs[r] IN
        (q.entry = "router" /\ Finished(q)) =>
            /\ (~Authenticated(q) \/ ~OwnPrefix(q)) =>
                  (q.status \in {401, 403} /\ HandlerNeverRan(q))
            /\ (Authenticated(q) /\ OwnPrefix(q)) =>
                  (q.pc = "done" /\ q.status \in {200, 404, 500})

----------------------------------------------------------------------------
(* C15 *)

\* C15: in every record a result is present only if the status is COMPLETED
\* and an error only if it is FAILED, never both, whatever confirm requests
\* (successful, repeated, racing, or failing into the failFlow of the catch
\* block) have run; and no status response reports completed: true together
\* with an error.
C15_ResultXorError ==
    /\ \A k \in DOMAIN flows :
          /\ flows[k].result # "undefined" => flows[k].status = "COMPLETED"
          /\ flows[k].error # NoError => flows[k].status = "FAILED"
          /\ ~(flows[k].result # "undefined" /\ flows[k].error # NoError)
    /\ \A r \in Reqs :
          /\ reqs[r].body.completed => reqs[r].body.error = NoError
          /\ reqs[r].body.error # NoError =>
                (reqs[r].body.failed /\ reqs[r].body.status = "FAILED")

\* a second confirm found the flow already COMPLETED by another request, its
\* completeFlow was refused and so was the failFlow of its catch block, and
\* the record still has its result
C15_Witness ==
    \E r1, r2 \in Reqs :
        /\ IsComplete(reqs[r1]) /\ reqs[r1].pc = "done"
        /\ reqs[r1].caught = Err("InvalidTransition", "completeFlow")
        /\ reqs[r1].raised = Err("InvalidTransition", "failFlow")
        /\ flows[Key(reqs[r1].validationId)].status = "COMPLETED"
        /\ flows[Key(reqs[r1].validationId)].result = "true"
        /\ r2 # r1 /\ reqs[r2].wrote = "COMPLETED"

----------------------------------------------------------------------------
(* C16 *)

\* C16: a flow's metadata (userId, serverName, toolName, toolArguments,
\* state, timestamp) is the same in every state from creation until expiry:
\* no step of completeValidationFlow, of the failFlow it may issue or of a
\* poll changes it, it is the metadata initiateValidationFlow returned, and
\* the adapter's getFlowState on a live flow, also after a successful
\* completion, returns exactly it, the original toolArguments included.
C16_MetadataUnchanged ==
    [][ /\ \A k \in DOMAIN flows :
              (now' <= flows[k].expiresAt) =>
                  /\ k \in DOMAIN flows'
                  /\ flows'[k].metadata = flows[k].metadata
                  /\ \E i \in DOMAIN initiated :
                        /\ Key(initiated[i].out.validationId) = k
                        /\ flows[k].metadata = initiated[i].out.flowMetadata
        /\ \A r \in Reqs :
              (reqs[r].pc = "adapter_get" /\ reqs'[r].pc = "done"
                 /\ ~reqs'[r].faulted /\ Live(reqs[r].validationId)) =>
                  /\ reqs'[r].ret = "metadata"
                  /\ reqs'[r].seen = flows[Key(reqs[r].validationId)].metadata
                  /\ reqs'[r].seen.toolArguments \in ToolArguments
      ]_vars

\* a completion succeeded, and a getFlowState called on the COMPLETED flow
\* returned the metadata of the initiation
C16_Witness ==
    \E r1, r2 \in Reqs :
        /\ Succeeded(reqs[r1]) /\ reqs[r1].wrote = "COMPLETED"
        /\ reqs[r2].entry = "adapter" /\ reqs[r2].kind = "status"
        /\ reqs[r2].validationId = reqs[r1].validationId
        /\ reqs[r2].sentStatus = "COMPLETED"
        /\ reqs[r2].pc = "done" /\ reqs[r2].ret = "metadata"
        /\ \E i \in DOMAIN initiated :
              /\ initiated[i].out.validationId = reqs[r2].validationId
              /\ reqs[r2].seen = initiated[i].out.flowMetadata
        /\ reqs[r2].seen.toolArguments = "args"

----------------------------------------------------------------------------
(* C17 *)

\* C17: the adapter's getFlowState and the handler of GET /validation/status
\* are read-only: a step of either, in any state, leaves every flow record
\* (status, result, error, metadata, expiresAt) unchanged; and on an absent
\* or expired flow the adapter's getFlowState, the manager having answered,
\* returns null and raises nothing.
C17_ReadsAreReadOnly ==
    [][ \A r \in Reqs :
            /\ (reqs[r].pc \in {"adapter_get", "status_get"}
                  /\ reqs'[r].pc # reqs[r].pc) =>
                    flows' = flows
            /\ (reqs[r].pc = "adapter_get" /\ reqs'[r].pc # "adapter_get"
                  /\ ~reqs'[r].faulted /\ ~Live(reqs[r].validationId)) =>
                    /\ reqs'[r].pc = "done"
                    /\ reqs'[r].ret = "null"
                    /\ reqs'[r].raised = NoError
                    /\ reqs'[r].seen = NoMetadata
      ]_vars

\* getFlowState, called on a flow that had expired, returned null, and the
\* record is still the COMPLETED one a confirm left
C17_Witness ==
    \E r \in Reqs :
        /\ reqs[r].entry = "adapter" /\ reqs[r].kind = "status"
        /\ reqs[r].pc = "done" /\ reqs[r].ret = "null" /\ reqs[r].raised = NoError
        /\ reqs[r].sentStatus = "NONE"
        /\ Expired(reqs[r].validationId)
        /\ flows[Key(reqs[r].validationId)].status = "COMPLETED"
        /\ flows[Key(reqs[r].validationId)].result = "true"

----------------------------------------------------------------------------
(* C18 *)

\* the calls of initiateValidationFlow the id specification follows
MaxCalls == 2

\* A call of initiateValidationFlow, one of several: the same call as
\* InitiateValidationFlow, made up to MaxCalls times.
InitiateValidationFlowCall ==
    /\ Len(initiated) < MaxCalls
    /\ \E userId \in UserIds, serverName \in ServerNames, toolName \in ToolNames,
          toolArguments \in ToolArguments, state \in generateState :
          initiated' = Append(initiated,
              [out |-> initiateValidationFlow(userId, serverName, toolName,
                                              toolArguments, state),
               created |-> "no"])
    /\ UNCHANGED <<now, ticks, faults, flows, reqs>>

\* Several flows are started and registered while the clock runs.
IdNext ==
    \/ Tick
    \/ InitiateValidationFlowCall
    \/ CreateFlow

IdSpec == Init /\ [][IdNext]_vars

\* C18: any two distinct initiateValidationFlow calls yield distinct
\* validationIds, also two calls with the same userId, serverName and
\* toolName at the same clock reading, and calls with different triples
\* whose ':'-joined strings coincide.
C18_IdsAreDistinct ==
    \A i, j \in DOMAIN initiated :
        i # j => initiated[i].out.validationId # initiated[j].out.validationId

====
